---- MODULE Spec2Model ----
(***************************************************************************)
(* Model of pkg/gadgets/interface.go: the BaseFactory trace registry       *)
(* (LookupOrCreate / Delete under one sync.Mutex) and the Resolver         *)
(* subscription contract.                                                  *)
(***************************************************************************)
EXTENDS Integers, Sequences, FiniteSets, TLC

\* ------------------------------------------------------------------ bounds
NumThreads == 2
NumNames == 2
MaxOps == 2
NumNamespaces == 2
MaxSubs == 1
MaxEvents == 2
MaxContainers == 2

Threads == 1..NumThreads
Names == 1..NumNames

\* The nil interface value; the i-th value a constructor makes is i, and an
\* entry that exists at the start holds a value made before any call.
Nil == 0
InitValue(n) == MaxOps + n
Values == 0..(MaxOps + NumNames)

\* ------------------------------------------------------- BaseFactory state
VARIABLES
    mu,         \* f.mu: 0 when unlocked, else the goroutine that locked it
    traces,     \* f.traces: [isNil, m]; m is the map (a partial function)
    concrete,   \* method set of the gadget type that embeds BaseFactory
    stack,      \* per goroutine: the calls it is inside of, innermost last
    last,       \* per goroutine: the call it completed last, as it ended
    nextId,     \* number of calls issued so far
    nextVal,    \* number of values the constructors have made so far
    hist        \* history, per name: removals, constructions, last event

\* --------------------------------------------------------- Resolver state
VARIABLES
    containers, \* the containers currently known
    subs,       \* the registered keys, each with its registration (see regs)
    regs,       \* history: every Subscribe so far: key, selector, snapshot
                \* returned, number of events before it and before its end
    events,     \* history: the add/remove events, in order
    pending,    \* notifications in flight: [reg, ev]
    delivered,  \* history: the callback invocations made: [reg, ev]
    unknownUnsub \* history: what Unsubscribe of unregistered keys has done

\* ------------------------------------------- Resolver state: the lookups
VARIABLES
    registry,   \* the container registry the lookups read
    lookup      \* history: the lookup made last since the registry changed

\* ----------------------------------------- BaseFactory state: other fields
VARIABLES
    Resolver,   \* f.Resolver
    Client,     \* f.Client
    operations  \* what Operations() returned last (a nil map before)

factoryVars == <<mu, traces, concrete, stack, last, nextId, nextVal, hist>>
resolverVars == <<containers, subs, regs, events, pending, delivered, unknownUnsub>>
lookupVars == <<registry, lookup>>
fieldVars == <<Resolver, Client, operations>>
vars == <<mu, traces, concrete, stack, last, nextId, nextVal, hist,
          containers, subs, regs, events, pending, delivered, unknownUnsub,
          registry, lookup, Resolver, Client, operations>>

\* ------------------------------------------------------------ Go's map
EmptyMap == [x \in {} |-> Nil]

MapSet(m, k, v) == [x \in (DOMAIN m) \cup {k} |-> IF x = k THEN v ELSE m[x]]

\* Mutant: delete leaves the entry in place.
MapDelete_Keep(m, k) == m

MapDelete(m, k) == [x \in (DOMAIN m) \ {k} |-> m[x]]

\* The zero value of the traces field: a nil map. Reading it finds nothing.
NilTraces == [isNil |-> TRUE, m |-> EmptyMap]

\* ------------------------------------------------- interfaces, method sets
BaseFactoryMethods == {"Initialize", "LookupOrCreate", "Delete", "Operations"}

TraceFactoryMethods == {"Initialize", "Delete", "Operations"}

TraceFactoryWithDeleteTrace == TraceFactoryMethods \cup {"DeleteTrace"}

\* A gadget type embeds BaseFactory and may add DeleteTrace of its own.
ConcreteMethodSets == {BaseFactoryMethods, BaseFactoryMethods \cup {"DeleteTrace"}}

\* The receiver f of Delete has static type *BaseFactory, so the interface
\* value TraceFactory(f) has dynamic type *BaseFactory whatever type embeds it.
ReceiverMethods(c) == BaseFactoryMethods

\* The type assertion x.(I): the dynamic type's method set has I's methods.
TypeAssert(methods, iface) == iface \subseteq methods

\* ------------------------------------------------------------------ Resolver
\* A container is known by its identity; of the selector's fields one, the
\* namespace, is kept (the others match in the same way). 0 is the empty
\* field of a selector, which matches anything.
\* The keys are interchangeable: they are numbered by their first Subscribe,
\* and there is one more than the Subscribe calls can use.
Keys == 1..(MaxSubs + 1)

UsedKeys == {regs[i].key : i \in 1..Len(regs)}

CanSubscribe(k) ==
    /\ Len(regs) < MaxSubs
    /\ k \notin DOMAIN subs
    /\ IF k \in UsedKeys THEN TRUE ELSE k = Cardinality(UsedKeys) + 1

Containers == [namespace : 1..NumNamespaces]

Selectors == [namespace : 0..NumNamespaces]

Matches(sel, c) == sel.namespace = 0 \/ sel.namespace = c.namespace

GetContainersBySelector(sel) == {c \in containers : Matches(sel, c)}

\* What the Unsubscribe calls on keys that are not registered have done so
\* far: "none" of them yet, "kept" the subscriptions, or "changed" them.
UnknownUnsub(k, after) ==
    IF k \in DOMAIN subs THEN unknownUnsub
    ELSE IF unknownUnsub = "changed" \/ after # subs THEN "changed" ELSE "kept"

\* The notifications an event on container c starts: one per subscription
\* that is registered at that moment and whose selector matches.
Notify(c) ==
    {[reg |-> subs[k], ev |-> Len(events) + 1] :
        k \in {j \in DOMAIN subs : Matches(regs[subs[j]].sel, c)}}

\* Mutant: the snapshot is taken, but the current containers are not returned.
Subscribe_NoSnapshot(k, sel) ==
    /\ CanSubscribe(k)
    /\ regs' = Append(regs, [key |-> k, sel |-> sel, snapshot |-> {},
                             since |-> Len(events), until |-> -1])
    /\ subs' = MapSet(subs, k, Len(regs) + 1)
    /\ UNCHANGED <<containers, events, pending, delivered, unknownUnsub>>
    /\ UNCHANGED <<factoryVars, fieldVars, lookupVars>>

\* Subscribe(key, s, f): returns the matching containers and registers f, in
\* one step. (What a key that is registered already does is left open.)
Subscribe(k, sel) ==
    /\ CanSubscribe(k)
    /\ regs' = Append(regs, [key |-> k, sel |-> sel,
                             snapshot |-> GetContainersBySelector(sel),
                             since |-> Len(events), until |-> -1])
    /\ subs' = MapSet(subs, k, Len(regs) + 1)
    /\ UNCHANGED <<containers, events, pending, delivered, unknownUnsub>>
    /\ UNCHANGED <<factoryVars, fieldVars, lookupVars>>

\* Mutant: Unsubscribe returns without removing the registration.
Unsubscribe_Keep(k) ==
    /\ unknownUnsub' = UnknownUnsub(k, subs)
    /\ regs' = IF k \in DOMAIN subs
               THEN [regs EXCEPT ![subs[k]].until = Len(events)]
               ELSE regs
    /\ UNCHANGED <<containers, subs, events, pending, delivered>>
    /\ UNCHANGED <<factoryVars, fieldVars, lookupVars>>

\* Unsubscribe(key): removes the registration of key; nothing for a key that
\* is not registered. Notifications already in flight are left alone.
Unsubscribe(k) ==
    /\ subs' = MapDelete(subs, k)
    /\ unknownUnsub' = UnknownUnsub(k, MapDelete(subs, k))
    /\ regs' = IF k \in DOMAIN subs
               THEN [regs EXCEPT ![subs[k]].until = Len(events)]
               ELSE regs
    /\ UNCHANGED <<containers, events, pending, delivered>>
    /\ UNCHANGED <<factoryVars, fieldVars, lookupVars>>

\* A container appears: the matching subscriptions are notified.
AddContainer(c) ==
    /\ Len(events) < MaxEvents
    /\ c \notin containers
    /\ containers' = containers \cup {c}
    /\ events' = Append(events, [kind |-> "add", c |-> c])
    /\ pending' = pending \cup Notify(c)
    /\ UNCHANGED <<subs, regs, delivered, unknownUnsub>>
    /\ UNCHANGED <<factoryVars, fieldVars, lookupVars>>

\* A container goes away: the matching subscriptions are notified.
RemoveContainer(c) ==
    /\ Len(events) < MaxEvents
    /\ c \in containers
    /\ containers' = containers \ {c}
    /\ events' = Append(events, [kind |-> "remove", c |-> c])
    /\ pending' = pending \cup Notify(c)
    /\ UNCHANGED <<subs, regs, delivered, unknownUnsub>>
    /\ UNCHANGED <<factoryVars, fieldVars, lookupVars>>

\* A notification in flight reaches its callback; those of one subscription
\* do so in the order of their events.
Deliver(d) ==
    /\ d \in pending
    /\ \A e \in pending : e.reg = d.reg => e.ev >= d.ev
    /\ pending' = pending \ {d}
    /\ delivered' = delivered \cup {d}
    /\ UNCHANGED <<containers, subs, regs, events, unknownUnsub>>
    /\ UNCHANGED <<factoryVars, fieldVars, lookupVars>>

\* ---------------------------------------------------- Resolver: the lookups
\* The registry holds what is known of each container: its identity
\* (namespace, pod, container name), its mount namespace inode and its PID.
\* An inode number and a PID of a live container are positive.
PodNames == {"p1", "p2"}

ContainerNames == {"c1", "c2"}

\* The inode and the PID that a container can come with.
Processes == {[mntns |-> 1234, pid |-> 99], [mntns |-> 5678, pid |-> 100]}

ContainerDefinitions ==
    {[namespace |-> ns, pod |-> pod, name |-> name, mntns |-> p.mntns, pid |-> p.pid] :
        ns \in 1..NumNamespaces, pod \in PodNames, name \in ContainerNames,
        p \in Processes}

\* Mutant: the namespace is left out of the comparison.
Known_AnyNamespace(ns, pod, name) ==
    {c \in registry : c.pod = pod /\ c.name = name}

\* The known containers of exactly this identity (none, or one).
Known(ns, pod, name) ==
    {c \in registry : c.namespace = ns /\ c.pod = pod /\ c.name = name}

\* LookupMntnsByContainer(namespace, pod, container): the mount namespace
\* inode, or zero if not found.
LookupMntnsByContainer(ns, pod, name) ==
    LET cs == Known(ns, pod, name)
    IN IF cs = {} THEN 0 ELSE (CHOOSE c \in cs : TRUE).mntns

\* LookupPIDByContainer(namespace, pod, container): the PID, or zero if not
\* found.
LookupPIDByContainer(ns, pod, name) ==
    LET cs == Known(ns, pod, name)
    IN IF cs = {} THEN 0 ELSE (CHOOSE c \in cs : TRUE).pid

NoLookup == [fn |-> "none", namespace |-> 0, pod |-> "", name |-> "", ret |-> 0]

\* A container becomes known. (What an identity that is known already does
\* is left open.)
RegistryAdd(c) ==
    /\ Cardinality(registry) < MaxContainers
    /\ Known(c.namespace, c.pod, c.name) = {}
    /\ registry' = registry \cup {c}
    /\ lookup' = NoLookup
    /\ UNCHANGED <<factoryVars, fieldVars, resolverVars>>

\* A container stops being known.
RegistryRemove(c) ==
    /\ c \in registry
    /\ registry' = registry \ {c}
    /\ lookup' = NoLookup
    /\ UNCHANGED <<factoryVars, fieldVars, resolverVars>>

\* A gadget calls LookupMntnsByContainer.
CallLookupMntnsByContainer(ns, pod, name) ==
    /\ lookup' = [fn |-> "LookupMntnsByContainer", namespace |-> ns, pod |-> pod,
                  name |-> name, ret |-> LookupMntnsByContainer(ns, pod, name)]
    /\ UNCHANGED registry
    /\ UNCHANGED <<factoryVars, fieldVars, resolverVars>>

\* A gadget calls LookupPIDByContainer.
CallLookupPIDByContainer(ns, pod, name) ==
    /\ lookup' = [fn |-> "LookupPIDByContainer", namespace |-> ns, pod |-> pod,
                  name |-> name, ret |-> LookupPIDByContainer(ns, pod, name)]
    /\ UNCHANGED registry
    /\ UNCHANGED <<factoryVars, fieldVars, resolverVars>>

\* ------------------------------------------------------------------ calls
Depth(t) == Len(stack[t])

Top(t) == stack[t][Depth(t)]

\* A call as it is issued: its arguments, and its locals at their zero values.
Frame(op, n, fnNil) ==
    [op |-> op, name |-> n, fnNil |-> fnNil,
     pc |-> "lock", ok |-> FALSE, trace |-> Nil, ret |-> Nil, invoked |-> 0,
     panicked |-> FALSE, hookArgs |-> <<>>,
     before |-> NilTraces, after |-> NilTraces, genAt |-> 0, sawLast |-> "none"]

\* What last[t] holds before goroutine t has completed any call.
NoCall == [Frame("none", 0, TRUE) EXCEPT !.pc = "none"]

\* Goroutine t is executing the given operation at the given position.
At(t, op, pc) == Depth(t) > 0 /\ Top(t).op = op /\ Top(t).pc = pc

\* Goroutine t has made a call already.
Started(t) == Depth(t) > 0 \/ last[t] # NoCall

\* User code (or a top-level caller) on goroutine t may start a call. The
\* goroutines are interchangeable: they are numbered by their first call.
CanCall(t) ==
    /\ nextId < MaxOps
    /\ IF Depth(t) = 0 THEN TRUE ELSE Top(t).pc = "construct"
    /\ IF t = 1 THEN TRUE ELSE Started(t - 1)

Push(t, c) ==
    /\ stack' = [stack EXCEPT ![t] = Append(@, c)]
    /\ nextId' = nextId + 1

SetTop(t, c) == stack' = [stack EXCEPT ![t][Depth(t)] = c]

NoHist == [gen |-> 0, built |-> 0, failed |-> 0, raced |-> FALSE, lastOp |-> "none"]

\* The history of a name whose entry was made before the first call here.
StoredHist == [NoHist EXCEPT !.built = 1, !.lastOp = "stored"]

\* Another goroutine is inside LookupOrCreate(n, fn), fn not nil.
Racing(t, n) ==
    \E u \in Threads \ {t} :
        /\ Depth(u) > 0
        /\ stack[u][1].op = "LookupOrCreate"
        /\ stack[u][1].name = n
        /\ ~stack[u][1].fnNil

\* The factory at the start: zero-valued (nil map), or left by earlier calls
\* with entries for some of the names (the names are interchangeable).
InitTraces ==
    {NilTraces} \cup
    {[isNil |-> FALSE, m |-> [n \in 1..k |-> InitValue(n)]] : k \in 0..NumNames}

\* ------------------------------------------------ BaseFactory.LookupOrCreate
\* A caller, or a constructor that is running, calls LookupOrCreate(n, fn);
\* fnNil says that the newTrace argument is nil.
CallLookupOrCreate(t, n, fnNil) ==
    /\ CanCall(t)
    /\ Push(t, Frame("LookupOrCreate", n, fnNil))
    /\ hist' = [hist EXCEPT ![n].raced = @ \/ (~fnNil /\ Racing(t, n))]
    /\ UNCHANGED <<mu, traces, concrete, last, nextVal>>
    /\ UNCHANGED <<fieldVars, resolverVars, lookupVars>>

\* Mutant: LookupOrCreate goes on without waiting for the mutex.
LookupOrCreateLock_NoWait(t) ==
    /\ At(t, "LookupOrCreate", "lock")
    /\ mu' = t
    /\ SetTop(t, [Top(t) EXCEPT !.pc = "check", !.before = traces])
    /\ UNCHANGED <<traces, concrete, last, nextId, hist, nextVal>>
    /\ UNCHANGED <<fieldVars, resolverVars, lookupVars>>

\* f.mu.Lock(): blocks while the mutex is locked, by whomever.
LookupOrCreateLock(t) ==
    /\ At(t, "LookupOrCreate", "lock")
    /\ mu = 0
    /\ mu' = t
    /\ SetTop(t, [Top(t) EXCEPT !.pc = "check", !.before = traces])
    /\ UNCHANGED <<traces, concrete, last, nextId, hist, nextVal>>
    /\ UNCHANGED <<fieldVars, resolverVars, lookupVars>>

\* Mutant: an entry that exists is returned only when newTrace is nil;
\* otherwise it is built again and replaced.
LookupOrCreateCheck_Rebuild(t) ==
    /\ At(t, "LookupOrCreate", "check")
    /\ LET c == Top(t)
           ok == (~traces.isNil) /\ c.name \in DOMAIN traces.m
           seen == [c EXCEPT !.genAt = hist[c.name].gen,
                             !.sawLast = hist[c.name].lastOp, !.ok = ok]
       IN /\ traces' = [traces EXCEPT !.isNil = FALSE]
          /\ IF c.fnNil
             THEN /\ SetTop(t, [seen EXCEPT !.pc = "unlock",
                                            !.ret = IF ok THEN traces.m[c.name] ELSE Nil])
                  /\ hist' = hist
             ELSE /\ SetTop(t, [seen EXCEPT !.pc = "construct", !.invoked = @ + 1])
                  /\ hist' = [hist EXCEPT ![c.name].built = @ + 1]
    /\ UNCHANGED <<mu, concrete, last, nextId, nextVal>>
    /\ UNCHANGED <<fieldVars, resolverVars, lookupVars>>

\* Mutant: a miss with a nil newTrace records the name with a nil value.
LookupOrCreateCheck_StoreNil(t) ==
    /\ At(t, "LookupOrCreate", "check")
    /\ LET c == Top(t)
           ok == (~traces.isNil) /\ c.name \in DOMAIN traces.m
           seen == [c EXCEPT !.genAt = hist[c.name].gen,
                             !.sawLast = hist[c.name].lastOp, !.ok = ok]
       IN IF ok
          THEN /\ SetTop(t, [seen EXCEPT !.pc = "unlock",
                                         !.trace = traces.m[c.name],
                                         !.ret = traces.m[c.name]])
               /\ traces' = traces
               /\ hist' = hist
          ELSE IF c.fnNil
               THEN /\ SetTop(t, [seen EXCEPT !.pc = "unlock", !.ret = Nil])
                    /\ traces' = [isNil |-> FALSE, m |-> MapSet(traces.m, c.name, Nil)]
                    /\ hist' = hist
               ELSE /\ SetTop(t, [seen EXCEPT !.pc = "construct", !.invoked = @ + 1])
                    /\ traces' = [traces EXCEPT !.isNil = FALSE]
                    /\ hist' = [hist EXCEPT ![c.name].built = @ + 1]
    /\ UNCHANGED <<mu, concrete, last, nextId, nextVal>>
    /\ UNCHANGED <<fieldVars, resolverVars, lookupVars>>

\* Mutant: the lookup tests the value against nil instead of the ok flag, so
\* a name recorded with a nil value counts as absent.
LookupOrCreateCheck_NilIsAbsent(t) ==
    /\ At(t, "LookupOrCreate", "check")
    /\ LET c == Top(t)
           ok == (~traces.isNil) /\ c.name \in DOMAIN traces.m /\ traces.m[c.name] # Nil
           seen == [c EXCEPT !.genAt = hist[c.name].gen,
                             !.sawLast = hist[c.name].lastOp, !.ok = ok]
       IN /\ traces' = [traces EXCEPT !.isNil = FALSE]
          /\ IF ok
             THEN /\ SetTop(t, [seen EXCEPT !.pc = "unlock",
                                            !.trace = traces.m[c.name],
                                            !.ret = traces.m[c.name]])
                  /\ hist' = hist
             ELSE IF c.fnNil
                  THEN /\ SetTop(t, [seen EXCEPT !.pc = "unlock", !.ret = Nil])
                       /\ hist' = hist
                  ELSE /\ SetTop(t, [seen EXCEPT !.pc = "construct", !.invoked = @ + 1])
                       /\ hist' = [hist EXCEPT ![c.name].built = @ + 1]
    /\ UNCHANGED <<mu, concrete, last, nextId, nextVal>>
    /\ UNCHANGED <<fieldVars, resolverVars, lookupVars>>

\* The nil check of the map, the lookup, and the nil check of newTrace.
LookupOrCreateCheck(t) ==
    /\ At(t, "LookupOrCreate", "check")
    /\ LET c == Top(t)
           ok == (~traces.isNil) /\ c.name \in DOMAIN traces.m
           seen == [c EXCEPT !.genAt = hist[c.name].gen,
                             !.sawLast = hist[c.name].lastOp, !.ok = ok]
       IN /\ traces' = [traces EXCEPT !.isNil = FALSE]
          /\ IF ok
             THEN /\ SetTop(t, [seen EXCEPT !.pc = "unlock",
                                            !.trace = traces.m[c.name],
                                            !.ret = traces.m[c.name]])
                  /\ hist' = hist
             ELSE IF c.fnNil
                  THEN /\ SetTop(t, [seen EXCEPT !.pc = "unlock", !.ret = Nil])
                       /\ hist' = hist
                  ELSE /\ SetTop(t, [seen EXCEPT !.pc = "construct", !.invoked = @ + 1])
                       /\ hist' = [hist EXCEPT ![c.name].built = @ + 1]
    /\ UNCHANGED <<mu, concrete, last, nextId, nextVal>>
    /\ UNCHANGED <<fieldVars, resolverVars, lookupVars>>

\* newTrace() returns: a value of its own making, or nil.
NewTraceReturn(t, v) ==
    /\ At(t, "LookupOrCreate", "construct")
    /\ v \in {Nil, nextVal + 1}
    /\ SetTop(t, [Top(t) EXCEPT !.pc = "store", !.trace = v])
    /\ nextVal' = IF v = Nil THEN nextVal ELSE nextVal + 1
    /\ UNCHANGED <<mu, traces, concrete, last, nextId, hist>>
    /\ UNCHANGED <<fieldVars, resolverVars, lookupVars>>

\* Mutant: the name is entered in the map before newTrace is called, so a
\* panic leaves the half-made entry behind.
NewTracePanic_PartialEntry(t) ==
    /\ At(t, "LookupOrCreate", "construct")
    /\ SetTop(t, [Top(t) EXCEPT !.pc = "unlock", !.panicked = TRUE])
    /\ traces' = [traces EXCEPT !.m = MapSet(@, Top(t).name, Nil)]
    /\ hist' = [hist EXCEPT ![Top(t).name].lastOp = "failed",
                            ![Top(t).name].failed = @ + 1]
    /\ UNCHANGED <<mu, concrete, last, nextId, nextVal>>
    /\ UNCHANGED <<fieldVars, resolverVars, lookupVars>>

\* newTrace() panics: the call unwinds to its deferred Unlock.
NewTracePanic(t) ==
    /\ At(t, "LookupOrCreate", "construct")
    /\ SetTop(t, [Top(t) EXCEPT !.pc = "unlock", !.panicked = TRUE])
    /\ hist' = [hist EXCEPT ![Top(t).name].lastOp = "failed",
                            ![Top(t).name].failed = @ + 1]
    /\ UNCHANGED <<mu, traces, concrete, last, nextId, nextVal>>
    /\ UNCHANGED <<fieldVars, resolverVars, lookupVars>>

\* f.traces[name] = trace; return trace
LookupOrCreateStore(t) ==
    /\ At(t, "LookupOrCreate", "store")
    /\ LET c == Top(t)
       IN /\ traces' = [traces EXCEPT !.m = MapSet(@, c.name, c.trace)]
          /\ SetTop(t, [c EXCEPT !.pc = "unlock", !.ret = c.trace])
          /\ hist' = [hist EXCEPT ![c.name].lastOp = "stored"]
    /\ UNCHANGED <<mu, concrete, last, nextId, nextVal>>
    /\ UNCHANGED <<fieldVars, resolverVars, lookupVars>>

\* ---------------------------------------------------------- BaseFactory.Delete
CallDelete(t, n) ==
    /\ CanCall(t)
    /\ Push(t, Frame("Delete", n, TRUE))
    /\ UNCHANGED <<mu, traces, concrete, last, hist, nextVal>>
    /\ UNCHANGED <<fieldVars, resolverVars, lookupVars>>

\* Mutant: Delete goes on without waiting for the mutex.
DeleteLock_NoWait(t) ==
    /\ At(t, "Delete", "lock")
    /\ mu' = t
    /\ SetTop(t, [Top(t) EXCEPT !.pc = "check", !.before = traces])
    /\ UNCHANGED <<traces, concrete, last, nextId, hist, nextVal>>
    /\ UNCHANGED <<fieldVars, resolverVars, lookupVars>>

\* f.mu.Lock(): blocks while the mutex is locked, by whomever.
DeleteLock(t) ==
    /\ At(t, "Delete", "lock")
    /\ mu = 0
    /\ mu' = t
    /\ SetTop(t, [Top(t) EXCEPT !.pc = "check", !.before = traces])
    /\ UNCHANGED <<traces, concrete, last, nextId, hist, nextVal>>
    /\ UNCHANGED <<fieldVars, resolverVars, lookupVars>>

\* The lookup (a nil map reads as empty), the early return, the type
\* assertion and, when it succeeds, the call of DeleteTrace(name, trace).
DeleteCheck(t) ==
    /\ At(t, "Delete", "check")
    /\ LET c == Top(t)
           ok == c.name \in DOMAIN traces.m
           trace == IF ok THEN traces.m[c.name] ELSE Nil
           seen == [c EXCEPT !.genAt = hist[c.name].gen,
                             !.sawLast = hist[c.name].lastOp,
                             !.ok = ok, !.trace = trace]
           isFactory == TypeAssert(ReceiverMethods(concrete), TraceFactoryWithDeleteTrace)
       IN IF ~ok
          THEN SetTop(t, [seen EXCEPT !.pc = "unlock"])
          ELSE IF isFactory
               THEN SetTop(t, [seen EXCEPT !.pc = "remove",
                                           !.hookArgs = Append(@, <<c.name, trace>>)])
               ELSE SetTop(t, [seen EXCEPT !.pc = "remove"])
    /\ UNCHANGED <<mu, traces, concrete, last, nextId, hist, nextVal>>
    /\ UNCHANGED <<fieldVars, resolverVars, lookupVars>>

\* Mutant: the entry is set to nil instead of being deleted.
DeleteRemove_SetNil(t) ==
    /\ At(t, "Delete", "remove")
    /\ LET c == Top(t)
       IN /\ traces' = [traces EXCEPT !.m = MapSet(@, c.name, Nil)]
          /\ SetTop(t, [c EXCEPT !.pc = "unlock"])
          /\ hist' = [hist EXCEPT ![c.name] =
                        [NoHist EXCEPT !.gen = hist[c.name].gen + 1,
                                       !.lastOp = "removed"]]
    /\ UNCHANGED <<mu, concrete, last, nextId, nextVal>>
    /\ UNCHANGED <<fieldVars, resolverVars, lookupVars>>

\* delete(f.traces, name)
DeleteRemove(t) ==
    /\ At(t, "Delete", "remove")
    /\ LET c == Top(t)
       IN /\ traces' = [traces EXCEPT !.m = MapDelete(@, c.name)]
          /\ SetTop(t, [c EXCEPT !.pc = "unlock"])
          /\ hist' = [hist EXCEPT ![c.name] =
                        [NoHist EXCEPT !.gen = hist[c.name].gen + 1,
                                       !.lastOp = "removed"]]
    /\ UNCHANGED <<mu, concrete, last, nextId, nextVal>>
    /\ UNCHANGED <<fieldVars, resolverVars, lookupVars>>

\* ------------------------------------------------------ defer f.mu.Unlock()
\* Mutant: Unlock is called before the normal returns instead of deferred, so
\* a panic leaves the mutex locked.
DeferredUnlock_NotOnPanic(t) ==
    /\ Depth(t) > 0
    /\ Top(t).pc = "unlock"
    /\ mu' = IF Top(t).panicked THEN mu ELSE 0
    /\ last' = [last EXCEPT ![t] = [Top(t) EXCEPT !.pc = "done", !.after = traces]]
    /\ stack' = [stack EXCEPT ![t] = SubSeq(@, 1, Depth(t) - 1)]
    /\ UNCHANGED <<traces, concrete, nextId, hist, nextVal>>
    /\ UNCHANGED <<fieldVars, resolverVars, lookupVars>>

\* Mutant: Unlock is called at the end of Delete instead of deferred, so the
\* early return for an absent name leaves the mutex locked.
DeferredUnlock_NotOnAbsent(t) ==
    /\ Depth(t) > 0
    /\ Top(t).pc = "unlock"
    /\ mu' = IF Top(t).op = "Delete" /\ ~Top(t).ok THEN mu ELSE 0
    /\ last' = [last EXCEPT ![t] = [Top(t) EXCEPT !.pc = "done", !.after = traces]]
    /\ stack' = [stack EXCEPT ![t] = SubSeq(@, 1, Depth(t) - 1)]
    /\ UNCHANGED <<traces, concrete, nextId, hist, nextVal>>
    /\ UNCHANGED <<fieldVars, resolverVars, lookupVars>>

\* Mutant: Unlock is called on the paths that construct or delete, but not
\* before LookupOrCreate returns an entry that it found.
DeferredUnlock_NotOnFound(t) ==
    /\ Depth(t) > 0
    /\ Top(t).pc = "unlock"
    /\ mu' = IF Top(t).op = "LookupOrCreate" /\ Top(t).ok THEN mu ELSE 0
    /\ last' = [last EXCEPT ![t] = [Top(t) EXCEPT !.pc = "done", !.after = traces]]
    /\ stack' = [stack EXCEPT ![t] = SubSeq(@, 1, Depth(t) - 1)]
    /\ UNCHANGED <<traces, concrete, nextId, hist, nextVal>>
    /\ UNCHANGED <<fieldVars, resolverVars, lookupVars>>

\* Runs on every way out of both functions, a panic included; the call then
\* returns (or the panic goes on) to its caller.
DeferredUnlock(t) ==
    /\ Depth(t) > 0
    /\ Top(t).pc = "unlock"
    /\ mu' = 0
    /\ last' = [last EXCEPT ![t] = [Top(t) EXCEPT !.pc = "done", !.after = traces]]
    /\ stack' = [stack EXCEPT ![t] = SubSeq(@, 1, Depth(t) - 1)]
    /\ UNCHANGED <<traces, concrete, nextId, hist, nextVal>>
    /\ UNCHANGED <<fieldVars, resolverVars, lookupVars>>

\* ------------------------------------- BaseFactory.Initialize, Operations
\* The arguments that Initialize is called with.
ResolverArgs == {"resolver"}

ClientArgs == {"client"}

\* Mutant: Initialize also starts the registry afresh.
Initialize_ResetTraces(r, c) ==
    /\ Resolver' = r
    /\ Client' = c
    /\ traces' = NilTraces
    /\ UNCHANGED <<mu, concrete, stack, last, nextId, nextVal, hist>>
    /\ UNCHANGED <<operations, resolverVars, lookupVars>>

\* f.Resolver = r; f.Client = c (the mutex is not taken)
Initialize(r, c) ==
    /\ Resolver' = r
    /\ Client' = c
    /\ UNCHANGED factoryVars
    /\ UNCHANGED <<operations, resolverVars, lookupVars>>

\* return map[string]TraceOperation{}: a map that is allocated and empty
Operations ==
    /\ operations' = [isNil |-> FALSE, m |-> EmptyMap]
    /\ UNCHANGED factoryVars
    /\ UNCHANGED <<Resolver, Client, resolverVars, lookupVars>>

\* ------------------------------------------------------------ specification
FactoryInit ==
    /\ mu = 0
    /\ traces \in InitTraces
    /\ concrete \in ConcreteMethodSets
    /\ stack = [t \in Threads |-> <<>>]
    /\ last = [t \in Threads |-> NoCall]
    /\ nextId = 0
    /\ nextVal = 0
    /\ hist = [n \in Names |-> IF n \in DOMAIN traces.m THEN StoredHist ELSE NoHist]

\* The resolver while only the factory is looked at.
ResolverIdle ==
    /\ containers = {}
    /\ subs = EmptyMap
    /\ regs = <<>>
    /\ events = <<>>
    /\ pending = {}
    /\ delivered = {}
    /\ unknownUnsub = "none"

\* The registry of containers while the lookups are not looked at.
LookupIdle ==
    /\ registry = {}
    /\ lookup = NoLookup

\* The zero values of the fields that Initialize and Operations deal with.
NilOperations == [isNil |-> TRUE, m |-> EmptyMap]

FieldsZero ==
    /\ Resolver = "nil"
    /\ Client = "nil"
    /\ operations = NilOperations

Init == FactoryInit /\ FieldsZero /\ ResolverIdle /\ LookupIdle

Next ==
    \E t \in Threads :
        \/ \E n \in Names, fnNil \in BOOLEAN : CallLookupOrCreate(t, n, fnNil)
        \/ LookupOrCreateLock(t)
        \/ LookupOrCreateCheck(t)
        \/ \E v \in Values : NewTraceReturn(t, v)
        \/ NewTracePanic(t)
        \/ LookupOrCreateStore(t)
        \/ \E n \in Names : CallDelete(t, n)
        \/ DeleteLock(t)
        \/ DeleteCheck(t)
        \/ DeleteRemove(t)
        \/ DeferredUnlock(t)

Spec == Init /\ [][Next]_vars

\* A step of a call that has been made: the goroutine is runnable (at Lock,
\* when the mutex is free), or its constructor returns or panics.
Progress(t) ==
    \/ LookupOrCreateLock(t)
    \/ LookupOrCreateCheck(t)
    \/ \E v \in Values : NewTraceReturn(t, v)
    \/ NewTracePanic(t)
    \/ LookupOrCreateStore(t)
    \/ DeleteLock(t)
    \/ DeleteCheck(t)
    \/ DeleteRemove(t)
    \/ DeferredUnlock(t)

\* The Go scheduler runs a goroutine that can run, and the constructors
\* terminate: while some call can take a step, a step is taken. (Callers
\* need not make calls.)
\* The factory of a gadget that defines DeleteTrace. It starts at its zero
\* value, with a nil map, or with an entry for every name.
InitFair ==
    /\ Init
    /\ "DeleteTrace" \in concrete
    /\ IF traces.isNil THEN TRUE ELSE DOMAIN traces.m = Names

SpecFair == InitFair /\ [][Next]_vars /\ WF_vars(\E t \in Threads : Progress(t))

\* The base factory with all its methods: Initialize and Operations are
\* called at any time beside the LookupOrCreate and Delete calls. At the
\* start every name has an entry, so that each call has entries beside its own.
InitFrame == Init /\ concrete = BaseFactoryMethods /\ DOMAIN traces.m = Names

NextFrame ==
    \/ Next
    \/ \E r \in ResolverArgs, c \in ClientArgs : Initialize(r, c)
    \/ Operations

SpecFrame == InitFrame /\ [][NextFrame]_vars

\* The resolver on its own, beside a factory that nothing calls. Any number
\* of containers is known at the start (the namespaces are interchangeable).
ResolverInit ==
    /\ containers \in {[namespace : 1..k] : k \in 0..NumNamespaces}
    /\ subs = EmptyMap
    /\ regs = <<>>
    /\ events = <<>>
    /\ pending = {}
    /\ delivered = {}
    /\ unknownUnsub = "none"

FactoryIdle ==
    /\ mu = 0
    /\ traces = NilTraces
    /\ concrete = BaseFactoryMethods
    /\ stack = [t \in Threads |-> <<>>]
    /\ last = [t \in Threads |-> NoCall]
    /\ nextId = 0
    /\ nextVal = 0
    /\ hist = [n \in Names |-> NoHist]

InitResolver == FactoryIdle /\ FieldsZero /\ ResolverInit /\ LookupIdle

NextResolver ==
    \/ \E k \in Keys, sel \in Selectors : Subscribe(k, sel)
    \/ \E k \in Keys : Unsubscribe(k)
    \/ \E c \in Containers : AddContainer(c)
    \/ \E c \in Containers : RemoveContainer(c)
    \/ \E d \in pending : Deliver(d)

SpecResolver == InitResolver /\ [][NextResolver]_vars

\* The lookups on their own, over a registry that starts empty and changes.
InitLookup == FactoryIdle /\ FieldsZero /\ ResolverIdle /\ LookupIdle

NextLookup ==
    \/ \E c \in ContainerDefinitions : RegistryAdd(c)
    \/ \E c \in ContainerDefinitions : RegistryRemove(c)
    \/ \E ns \in 1..NumNamespaces, pod \in PodNames, name \in ContainerNames :
          CallLookupMntnsByContainer(ns, pod, name)
    \/ \E ns \in 1..NumNamespaces, pod \in PodNames, name \in ContainerNames :
          CallLookupPIDByContainer(ns, pod, name)

SpecLookup == InitLookup /\ [][NextLookup]_vars

\* ------------------------------------------------------------------ claims
\* The calls that can be looked at: those in progress and, per goroutine, the
\* one completed last. Each comes with its goroutine.
Seen ==
    {<<t, last[t]>> : t \in Threads} \cup
    UNION {{<<t, stack[t][i]>> : i \in 1..Depth(t)} : t \in Threads}

\* The calls that are over or about to return (inside the deferred Unlock),
\* each with its goroutine and the registry as the call leaves it.
Ending ==
    {<<t, last[t], last[t].after>> : t \in {u \in Threads : last[u].pc = "done"}} \cup
    {<<t, Top(t), traces>> : t \in {u \in Threads : Depth(u) > 0 /\ Top(u).pc = "unlock"}}

IsCreate(c) == c.op = "LookupOrCreate" /\ ~c.fnNil

\* C1: concurrent LookupOrCreate(n, f) calls on a name without an entry, f not
\* nil and no Delete(n) in between (same generation of n): the calls that
\* return all return the same value, which is the one stored under n, and n
\* was built once (with no failed construction, f ran exactly once).
C1_ConstructOnce ==
    /\ \A x, y \in Ending :
         (/\ IsCreate(x[2]) /\ IsCreate(y[2])
          /\ ~x[2].panicked /\ ~y[2].panicked
          /\ x[2].name = y[2].name
          /\ x[2].genAt = y[2].genAt) => x[2].ret = y[2].ret
    /\ \A x \in Ending :
         LET c == x[2] n == x[2].name IN
         (IsCreate(c) /\ ~c.panicked /\ c.genAt = hist[n].gen) =>
            /\ n \in DOMAIN traces.m
            /\ traces.m[n] = c.ret
            /\ hist[n].built - hist[n].failed = 1
            /\ (hist[n].failed = 0 => hist[n].built = 1)

\* Two goroutines called LookupOrCreate(n, f) at the same time on a name with
\* no entry; one built the value, the other found it; both have returned it.
C1_Witness ==
    \E t, u \in Threads :
        /\ t # u
        /\ last[t].pc = "done" /\ last[u].pc = "done"
        /\ IsCreate(last[t]) /\ IsCreate(last[u])
        /\ last[t].name = last[u].name
        /\ hist[last[t].name].raced
        /\ hist[last[t].name].gen = 0
        /\ last[t].name \notin DOMAIN last[t].before.m
        /\ last[t].invoked = 1 /\ last[u].invoked = 0
        /\ last[t].ret # Nil
        /\ last[t].ret = last[u].ret

\* C2: when the gadget type has DeleteTrace, a Delete(n) that finds an entry
\* calls DeleteTrace(n, v) once, with the stored value v, before the entry is
\* removed.
C2_DeleteTraceCalled ==
    \A x \in Seen :
        LET c == x[2] IN
        (/\ "DeleteTrace" \in concrete
         /\ c.op = "Delete" /\ c.ok
         /\ c.pc \in {"remove", "unlock", "done"})
        => c.hookArgs = << <<c.name, c.before.m[c.name]>> >>

\* C3: when Delete(n) on a name with an entry returns, the entry is gone,
\* with or without the DeleteTrace capability (without it no hook is called);
\* a LookupOrCreate(n, nil) that comes next for n returns nil.
C3_DeleteRemoves ==
    /\ \A x \in Ending :
         LET c == x[2] IN
         (c.op = "Delete" /\ c.name \in DOMAIN c.before.m) =>
            /\ c.name \notin DOMAIN x[3].m
            /\ ("DeleteTrace" \notin concrete => c.hookArgs = <<>>)
    /\ \A x \in Ending :
         LET c == x[2] IN
         (c.op = "LookupOrCreate" /\ c.fnNil /\ c.sawLast = "removed") =>
            /\ c.ret = Nil
            /\ ~c.ok

\* A factory with the capability: Delete(n) removed an entry and returned,
\* then LookupOrCreate(n, nil) returned nil.
C3_Witness ==
    \E t, u \in Threads :
        /\ "DeleteTrace" \in concrete
        /\ last[t].pc = "done" /\ last[t].op = "Delete"
        /\ last[t].name \in DOMAIN last[t].before.m
        /\ last[u].pc = "done" /\ last[u].op = "LookupOrCreate" /\ last[u].fnNil
        /\ last[u].name = last[t].name
        /\ last[u].sawLast = "removed"
        /\ last[u].ret = Nil

\* C4: a LookupOrCreate(n, g) that finds an entry for n returns the stored
\* value, does not call g and leaves the stored value as it is; while n is not
\* deleted the value it returned stays the one stored, and a name is built at
\* most once between two deletions.
C4_SingleEntry ==
    /\ \A x \in Ending :
         LET c == x[2] n == x[2].name IN
         (c.op = "LookupOrCreate" /\ n \in DOMAIN c.before.m) =>
            /\ c.invoked = 0
            /\ c.ret = c.before.m[n]
            /\ n \in DOMAIN x[3].m
            /\ x[3].m[n] = c.before.m[n]
            /\ (c.genAt = hist[n].gen => n \in DOMAIN traces.m /\ traces.m[n] = c.ret)
    /\ \A n \in Names : hist[n].built - hist[n].failed <= 1

\* One call created the entry of n; a later LookupOrCreate(n, g), g not nil,
\* has returned the same value without calling g.
C4_Witness ==
    \E t, u \in Threads :
        /\ t # u
        /\ last[t].pc = "done" /\ IsCreate(last[t]) /\ last[t].invoked = 1
        /\ last[t].ret # Nil
        /\ last[u].pc = "done" /\ IsCreate(last[u])
        /\ last[u].name = last[t].name
        /\ last[u].before.m[last[u].name] = last[t].ret
        /\ last[u].invoked = 0
        /\ last[u].ret = last[t].ret

\* C5 (as stated): the mutex is not held while the constructor runs.
C5_NoLockInUserCode ==
    \A x \in Seen : x[2].pc = "construct" => mu = 0

\* C5 (amended): the constructor runs with the mutex held by the goroutine
\* that called LookupOrCreate; a goroutine is never inside two critical
\* sections (a call made while it holds the mutex waits at Lock); and a
\* goroutine that is in no call holds no lock, whichever way its calls ended
\* (found, not found, created, deleted, construction panicked).
C5_Locking ==
    /\ \A x \in Seen : x[2].pc = "construct" => mu = x[1]
    /\ \A t \in Threads :
         Cardinality({i \in 1..Depth(t) : stack[t][i].pc # "lock"}) <= 1
    /\ \A t \in Threads : Depth(t) = 0 => mu # t

\* A constructor is running under the lock of its goroutine while another
\* goroutine is back from a LookupOrCreate whose constructor panicked.
C5_Witness ==
    \E t, u \in Threads :
        /\ Depth(t) = 1 /\ Top(t).pc = "construct" /\ mu = t
        /\ Depth(u) = 0 /\ last[u].pc = "done" /\ last[u].panicked

\* C6: LookupOrCreate(n, nil) on a name without an entry returns nil, calls
\* nothing and leaves the entries as they were, on a nil map too.
C6_NilLookupNoEffect ==
    \A x \in Ending :
        LET c == x[2] IN
        (c.op = "LookupOrCreate" /\ c.fnNil /\ c.name \notin DOMAIN c.before.m) =>
            /\ c.ret = Nil
            /\ c.invoked = 0
            /\ ~c.panicked
            /\ x[3].m = c.before.m

\* LookupOrCreate(n, nil) has returned nil on a factory whose map was nil,
\* and the registry still has no entry.
C6_Witness ==
    \E t \in Threads :
        /\ last[t].pc = "done" /\ last[t].op = "LookupOrCreate" /\ last[t].fnNil
        /\ last[t].before.isNil
        /\ last[t].ret = Nil
        /\ DOMAIN traces.m = {}

\* C7: Delete(n) on a name without an entry returns normally, leaves the
\* registry (entries, values, nil map) as it was, calls no hook and leaves
\* the mutex unlocked; so does any number of such calls.
C7_DeleteAbsent ==
    \A x \in Ending :
        LET c == x[2] IN
        (c.op = "Delete" /\ c.name \notin DOMAIN c.before.m) =>
            /\ ~c.panicked
            /\ ~c.ok
            /\ c.hookArgs = <<>>
            /\ x[3] = c.before
            /\ (c.pc = "done" /\ Depth(x[1]) = 0 => mu # x[1])

\* Two Delete calls on absent names have returned on a factory whose map was
\* never allocated; the map is still nil and the mutex is free.
C7_Witness ==
    /\ \A t \in Threads :
         /\ last[t].pc = "done" /\ last[t].op = "Delete"
         /\ last[t].before = NilTraces
         /\ Depth(t) = 0
    /\ traces = NilTraces
    /\ mu = 0

\* C8: when the constructor panics the call ends panicking, without an entry
\* for n, with every other entry as before and with the mutex released; the
\* constructor was run once (no retry), and the next LookupOrCreate(n, g)
\* with g not nil runs g.
C8_ConstructionFailure ==
    /\ \A x \in Ending :
         LET c == x[2] IN
         c.panicked =>
            /\ c.op = "LookupOrCreate"
            /\ c.invoked = 1
            /\ c.name \notin DOMAIN x[3].m
            /\ x[3].m = c.before.m
            /\ (c.pc = "done" /\ Depth(x[1]) = 0 => mu # x[1])
    /\ \A x \in Seen :
         LET c == x[2] IN
         /\ c.invoked <= 1
         /\ (IsCreate(c) /\ c.sawLast = "failed"
               /\ c.pc \in {"construct", "store", "unlock", "done"}) => c.invoked = 1

\* A LookupOrCreate(n, f) ended in a panic of f; another call for n has then
\* built a value with its own constructor, and it is the one stored.
C8_Witness ==
    \E t, u \in Threads :
        /\ last[t].pc = "done" /\ last[t].panicked
        /\ last[u].pc = "done" /\ IsCreate(last[u])
        /\ last[u].name = last[t].name
        /\ last[u].sawLast = "failed"
        /\ last[u].invoked = 1
        /\ last[u].ret # Nil
        /\ traces.m[last[u].name] = last[u].ret

\* The events subscription r covers: those after its Subscribe, up to its
\* Unsubscribe if it has had one.
Until(r) == IF regs[r].until = -1 THEN Len(events) ELSE regs[r].until

Notified == pending \cup delivered

\* What the subscriber of r knows after event i: the snapshot it was given,
\* changed by the notifications of the events up to i.
RECURSIVE View(_, _)
View(r, i) ==
    IF i <= regs[r].since THEN regs[r].snapshot
    ELSE LET e == events[i]
             prev == View(r, i - 1)
         IN IF ~Matches(regs[r].sel, e.c) THEN prev
            ELSE IF e.kind = "add" THEN prev \cup {e.c} ELSE prev \ {e.c}

\* C9: an event is notified to a subscription iff it comes after its
\* Subscribe (and before its Unsubscribe) and its container matches the
\* selector; no add is notified for a container the subscriber has already
\* (from the snapshot or an earlier add), no remove for one it has not; and
\* snapshot plus notifications give exactly the matching known containers.
C9_SubscribeAtomic ==
    \A r \in 1..Len(regs) :
        /\ \A i \in 1..Len(events) :
             ([reg |-> r, ev |-> i] \in Notified) <=>
                (/\ i > regs[r].since
                 /\ i <= Until(r)
                 /\ Matches(regs[r].sel, events[i].c))
        /\ \A i \in (regs[r].since + 1)..Until(r) :
             Matches(regs[r].sel, events[i].c) =>
                IF events[i].kind = "add"
                THEN events[i].c \notin View(r, i - 1)
                ELSE events[i].c \in View(r, i - 1)
        /\ regs[r].until = -1 =>
             View(r, Len(events)) = GetContainersBySelector(regs[r].sel)

\* A subscription got a snapshot that is not empty; of the events after it
\* one matched and reached the callback, another did not match.
C9_Witness ==
    \E r \in 1..Len(regs) :
        /\ regs[r].snapshot # {}
        /\ \E i, j \in (regs[r].since + 1)..Len(events) :
             /\ Matches(regs[r].sel, events[i].c)
             /\ [reg |-> r, ev |-> i] \in delivered
             /\ ~Matches(regs[r].sel, events[j].c)
             /\ [reg |-> r, ev |-> j] \notin Notified

\* C10: no notification of a subscription starts after its Unsubscribe has
\* returned (those started before may still be delivered); Unsubscribe of a
\* key that is not registered changes nothing, and a subscription stays
\* registered until its own Unsubscribe.
C10_Unsubscribed ==
    /\ \A d \in Notified :
         regs[d.reg].until # -1 => d.ev <= regs[d.reg].until
    /\ unknownUnsub # "changed"
    /\ \A r \in 1..Len(regs) :
         regs[r].until = -1 =>
            regs[r].key \in DOMAIN subs /\ subs[regs[r].key] = r

\* A subscription was notified of an event and then cancelled; a matching
\* event came afterwards and was not notified; an Unsubscribe on a key that
\* was not registered has happened too.
C10_Witness ==
    \E r \in 1..Len(regs) :
        /\ regs[r].until # -1
        /\ unknownUnsub = "kept"
        /\ \E j \in 1..regs[r].until : [reg |-> r, ev |-> j] \in delivered
        /\ \E i \in (regs[r].until + 1)..Len(events) :
             /\ Matches(regs[r].sel, events[i].c)
             /\ [reg |-> r, ev |-> i] \notin Notified

\* C11: a lookup by (namespace, pod, container) returns the registered inode
\* (LookupMntnsByContainer) or PID (LookupPIDByContainer) of the known
\* container of exactly that identity, and 0 when there is none; no known
\* container has inode 0, so a result of 0 means not found and nothing else.
C11_LookupByContainer ==
    /\ \A c \in registry : c.mntns # 0
    /\ lookup.fn # "none" =>
         LET hits == {c \in registry :
                        <<c.namespace, c.pod, c.name>> =
                        <<lookup.namespace, lookup.pod, lookup.name>>}
         IN /\ hits = {} => lookup.ret = 0
            /\ \A c \in hits :
                 lookup.ret = IF lookup.fn = "LookupMntnsByContainer"
                              THEN c.mntns ELSE c.pid
            /\ lookup.ret = 0 <=> hits = {}

\* A container is known, and so is one that differs from it in the namespace
\* alone; the inode of the first has been looked up and returned.
C11_Witness ==
    /\ lookup.fn = "LookupMntnsByContainer"
    /\ lookup.ret # 0
    /\ \E c, d \in registry :
         /\ <<c.namespace, c.pod, c.name>> = <<lookup.namespace, lookup.pod, lookup.name>>
         /\ d.namespace # c.namespace /\ d.pod = c.pod /\ d.name = c.name
         /\ d.mntns # c.mntns
         /\ lookup.ret = c.mntns

\* A call that is between its Lock and the end of its deferred Unlock.
InCriticalSection(c) == c.pc \in {"check", "construct", "store", "remove", "unlock"}

CriticalSections ==
    {<<t, i>> \in Threads \X (1..MaxOps) :
        i <= Depth(t) /\ InCriticalSection(stack[t][i])}

\* What call c, run alone on the registry it found when it took the lock,
\* leaves behind and returns (given what its constructor did).
Sequential(c) ==
    LET b == c.before
        present == c.name \in DOMAIN b.m
    IN IF c.op = "Delete"
       THEN [after |-> IF present THEN [b EXCEPT !.m = MapDelete(@, c.name)] ELSE b,
             ret |-> Nil]
       ELSE IF present
            THEN [after |-> [b EXCEPT !.isNil = FALSE], ret |-> b.m[c.name]]
            ELSE IF c.fnNil \/ c.panicked
                 THEN [after |-> [b EXCEPT !.isNil = FALSE], ret |-> Nil]
                 ELSE [after |-> [isNil |-> FALSE, m |-> MapSet(b.m, c.name, c.trace)],
                       ret |-> c.trace]

C12_Exclusive ==
    /\ Cardinality(CriticalSections) <= 1
    /\ \A x \in CriticalSections : mu = x[1]
    /\ mu # 0 => \E x \in CriticalSections : x[1] = mu
    /\ \A x \in Ending :
         /\ x[3] = Sequential(x[2]).after
         /\ x[2].ret = Sequential(x[2]).ret
    /\ \A t \in Threads : Depth(t) = 0 => mu # t

C12_Step ==
    /\ traces' # traces => (mu # 0 /\ mu' = mu /\ InCriticalSection(Top(mu)))
    /\ mu' # mu => IF mu = 0
                   THEN At(mu', "LookupOrCreate", "lock") \/ At(mu', "Delete", "lock")
                   ELSE mu' = 0 /\ Top(mu).pc = "unlock"

\* C12: a LookupOrCreate or Delete call holds the mutex from before its first
\* access to the map until after its last: at most one call is between Lock
\* and Unlock, it is the holder's, the map changes only in a step of the
\* holder, and each call leaves the map and returns as it would when run alone
\* on the map it found at its Lock (the calls are equivalent to running one
\* after the other in the order of their Locks); on every way out (found, nil
\* constructor, created, absent, deleted) the mutex is released.
C12_Serializable == []C12_Exclusive /\ [][C12_Step]_vars

\* One call has changed the map and is about to unlock while a call of
\* another goroutine waits at Lock.
C12_Witness ==
    \E t, u \in Threads :
        /\ t # u
        /\ Depth(t) > 0 /\ Top(t).pc = "unlock"
        /\ Top(t).before.m # traces.m
        /\ Depth(u) > 0 /\ Top(u).pc = "lock"

\* C13: LookupOrCreate(n, f) calls f iff f is not nil and n has no entry in
\* the map the call finds when it holds the lock. So the first
\* LookupOrCreate(n, f), f not nil, after a Delete(n) or on a map that was
\* never allocated calls f, and stores and returns what f made then: not the
\* value that the Delete removed.
C13_ConstructIffAbsent ==
    /\ \A x \in Seen :
         LET c == x[2] IN
         (c.op = "LookupOrCreate" /\ c.pc \in {"construct", "store", "unlock", "done"}) =>
            c.invoked = IF ~c.fnNil /\ c.name \notin DOMAIN c.before.m THEN 1 ELSE 0
    /\ \A x \in Ending :
         LET c == x[2] IN
         (IsCreate(c) /\ (c.sawLast = "removed" \/ c.before.isNil)) =>
            /\ c.invoked = 1
            /\ ~c.panicked =>
                 /\ c.name \in DOMAIN x[3].m
                 /\ x[3].m[c.name] = c.trace
                 /\ c.ret = c.trace
                 /\ \A y \in Ending :
                      (/\ y[2].op = "Delete" /\ y[2].ok
                       /\ y[2].name = c.name
                       /\ y[2].genAt + 1 = c.genAt
                       /\ c.ret # Nil) => c.ret # y[2].trace

\* Delete(n) has removed an entry; then LookupOrCreate(n, f) of another
\* goroutine has called f and returned what f made, which is another value.
C13_Witness ==
    \E t, u \in Threads :
        /\ last[t].pc = "done" /\ last[t].op = "Delete" /\ last[t].ok
        /\ last[t].trace # Nil
        /\ last[u].pc = "done" /\ IsCreate(last[u])
        /\ last[u].name = last[t].name
        /\ last[u].sawLast = "removed"
        /\ last[u].genAt = last[t].genAt + 1
        /\ last[u].invoked = 1
        /\ last[u].ret # Nil
        /\ last[u].ret # last[t].trace

\* C14 as stated: no deadlock, calls made by a running constructor on the
\* same factory included: while a call is in progress or the mutex is locked,
\* some call can take a step (which a fair scheduler then takes), so every
\* call eventually returns and the mutex eventually becomes free.
C14_NoDeadlock ==
    ((\E t \in Threads : Depth(t) > 0) \/ mu # 0) =>
        ENABLED (\E t \in Threads : Progress(t))

\* A constructor that is running has called LookupOrCreate or Delete on the
\* factory whose mutex its goroutine holds.
Reentered == \E u \in Threads : Depth(u) > 1

\* Every call that was made has returned, and the mutex is free.
Quiet == mu = 0 /\ \A t \in Threads : Depth(t) = 0

C14_Blocked ==
    \A u \in Threads :
        Depth(u) > 1 => /\ Depth(u) = 2
                        /\ Top(u).pc = "lock"
                        /\ stack[u][1].pc = "construct"
                        /\ mu = u

\* C14, amended: under fair scheduling, as long as no running constructor
\* calls LookupOrCreate or Delete on the same factory, every call eventually
\* returns and the mutex eventually becomes free. A call made by a running
\* constructor waits at Lock for the mutex that its own goroutine holds: it
\* stays there, and the mutex stays locked, for ever.
C14_ReturnsUnlessReentered ==
    /\ (\E t \in Threads : Depth(t) > 0) ~> (Quiet \/ Reentered)
    /\ []C14_Blocked
    /\ [][Reentered => (Reentered' /\ mu' = mu)]_vars

\* Two goroutines were in LookupOrCreate(n, f) at once; the constructor ran
\* in one of them; both calls have returned and the mutex is free.
C14_Witness ==
    /\ mu = 0
    /\ \A t \in Threads : Depth(t) = 0 /\ last[t].pc = "done"
    /\ \E n \in Names : hist[n].raced
    /\ \E t \in Threads : last[t].invoked = 1

\* The map that call c found at its Lock has name c.name with a nil value.
FoundNil(c) == c.name \in DOMAIN c.before.m /\ c.before.m[c.name] = Nil

\* C15: when LookupOrCreate(n, f), f not nil, returns normally, n has an
\* entry and the value returned is the value stored under n at that moment,
\* also when f returns nil: n is then recorded with a nil value, a later
\* LookupOrCreate(n, g) returns nil and does not call g, and Delete(n) finds n
\* present and removes it.
C15_ReturnedIsStored ==
    /\ \A x \in Ending :
         LET c == x[2] IN
         (IsCreate(c) /\ ~c.panicked) =>
            /\ c.name \in DOMAIN x[3].m
            /\ x[3].m[c.name] = c.ret
            /\ c.invoked = 1 => c.ret = c.trace
    /\ \A x \in Seen :
         LET c == x[2] IN
         (c.pc \in {"construct", "store", "remove", "unlock", "done"} /\ FoundNil(c)) =>
            /\ c.ok
            /\ c.invoked = 0
            /\ c.op = "Delete" => c.pc \in {"remove", "unlock", "done"}
    /\ \A x \in Ending :
         LET c == x[2] IN
         FoundNil(c) =>
            IF c.op = "Delete"
            THEN c.name \notin DOMAIN x[3].m
            ELSE c.ret = Nil /\ c.name \in DOMAIN x[3].m /\ x[3].m[c.name] = Nil

\* The constructor of LookupOrCreate(n, f) returned nil, and the call returned
\* nil with n recorded; then LookupOrCreate(n, g), g not nil, of another
\* goroutine found n and returned nil without calling g.
C15_Witness ==
    \E t, u \in Threads :
        /\ t # u
        /\ last[t].pc = "done" /\ IsCreate(last[t]) /\ ~last[t].panicked
        /\ last[t].invoked = 1 /\ last[t].ret = Nil
        /\ last[t].name \in DOMAIN last[t].after.m
        /\ last[u].pc = "done" /\ IsCreate(last[u])
        /\ last[u].name = last[t].name
        /\ FoundNil(last[u])
        /\ last[u].invoked = 0 /\ last[u].ret = Nil

\* The entry of name n, absent or present with its value, is the same in
\* the maps a and b.
SameEntry(a, b, n) ==
    /\ n \in DOMAIN a <=> n \in DOMAIN b
    /\ n \in DOMAIN a => a[n] = b[n]

C16_CallFrame ==
    /\ \A x \in Ending :
         \A n \in Names \ {x[2].name} : SameEntry(x[2].before.m, x[3].m, n)
    /\ DOMAIN operations.m = {}

C16_StepFrame ==
    /\ \A n \in Names :
         ~SameEntry(traces.m, traces'.m, n) =>
            /\ mu # 0
            /\ Top(mu).name = n
            /\ Top(mu).pc \in {"store", "remove"}
    /\ <<Resolver, Client, operations>>' # <<Resolver, Client, operations>> =>
         traces' = traces

\* C16: LookupOrCreate(n, f) and Delete(n) change at most the entry of n: the
\* entry of every other name is absent or present, with the same value, after
\* the call as before it, and in every step that changes an entry the entry
\* is that of the name of the call holding the mutex. The steps of Initialize
\* and Operations change no entry, and what Operations returns is empty.
C16_Frame == []C16_CallFrame /\ [][C16_StepFrame]_vars

\* Initialize and Operations have been called; a LookupOrCreate(n, f) call has
\* stored a new entry for n and a Delete(m) call has removed the entry of m,
\* each beside an entry of another name, which is as it was.
C16_Witness ==
    /\ Resolver # "nil" /\ Client # "nil"
    /\ ~operations.isNil
    /\ \E x, y \in Ending :
         /\ IsCreate(x[2]) /\ x[2].invoked = 1 /\ x[2].name \in DOMAIN x[3].m
         /\ \E n \in Names \ {x[2].name} : n \in DOMAIN x[3].m
         /\ y[2].op = "Delete" /\ y[2].ok
         /\ \E n \in Names \ {y[2].name} : n \in DOMAIN y[3].m

====
